---- MODULE Spec2Model ----
(***************************************************************************)
(* Model of py-GC.py: a command-line demonstration of CPython's reference  *)
(* counting, cycle collector, weak references and gc debug flags.          *)
(*                                                                         *)
(* The state is main()'s local bindings, the Node objects on the heap and  *)
(* the collector's process-wide state (debug flags, gc.garbage).  Every    *)
(* statement of main() that touches that state is one action.  Only Node   *)
(* objects are tracked on the heap: the value returned by gc.collect() is  *)
(* the number of Nodes found unreachable (the interpreter's own garbage,   *)
(* e.g. argparse's, is left out).  The --color option only changes the     *)
(* text that is printed and is not modelled.                               *)
(***************************************************************************)
EXTENDS Integers, Sequences, FiniteSets, TLC

\* Bounds of the model.
MaxCycles == 3      \* largest value of --cycles explored
MaxFaults == 1      \* how many Nodes may have a failing print in __del__

\* gc module constants used at line 161.
DEBUG_SAVEALL == 32
DEBUG_LEAK == 38    \* DEBUG_COLLECTABLE | DEBUG_UNCOLLECTABLE | DEBUG_SAVEALL

VARIABLES
    pc,            \* position in main()
    args,          \* parsed command line (argparse namespace)
    faulty,        \* Nodes whose print() inside __del__ raises, with what it raises
    heap,          \* Node objects and collector state
    holders,       \* main's local list of pair lists
    pair,          \* main's local `pair` (loop variable of both loops)
    idx,           \* pairs already visited by the break loop
    weak_objects,  \* main's local list of strong refs of the weakref demo
    aref, bref,    \* main's weak references (their referent, or None)
    report,        \* what lines 183 and 190 printed about aref()/bref()
    debug_flags,   \* main's local debug_flags
    prev,          \* temporary_gc_debug's local prev
    gc_debug,      \* the collector's debug flags (gc.get_debug())
    collected,     \* main's local `collected`
    passes,        \* history of collector passes
    exc,           \* exception propagating out of main
    exit_code      \* process exit status

vars == <<pc, args, faulty, heap, holders, pair, idx, weak_objects, aref, bref,
          report, debug_flags, prev, gc_debug, collected, passes, exc, exit_code>>

None == <<>>

WeakA == <<"Weak-A", 0>>
WeakB == <<"Weak-B", 0>>
LoopNodes == {"A", "B"} \X (0 .. MaxCycles - 1)
NodeIds == LoopNodes \cup {WeakA, WeakB}

Range(s) == {s[k] : k \in DOMAIN s}

\* Allocation order of the Nodes (the order of the collector's object list).
Rank(n) ==
    IF n = WeakA THEN 2 * MaxCycles
    ELSE IF n = WeakB THEN 2 * MaxCycles + 1
    ELSE 2 * n[2] + (IF n[1] = "A" THEN 0 ELSE 1)

RECURSIVE InOrder(_)
InOrder(S) ==
    IF S = {} THEN <<>>
    ELSE LET first == CHOOSE n \in S : \A m \in S : Rank(n) <= Rank(m)
         IN <<first>> \o InOrder(S \ {first})

RECURSIVE BitOr(_, _)
BitOr(a, b) ==
    IF a = 0 THEN b
    ELSE IF b = 0 THEN a
    ELSE (IF a % 2 = 1 \/ b % 2 = 1 THEN 1 ELSE 0) + 2 * BitOr(a \div 2, b \div 2)

\* flags & bit, for a single-bit mask.
HasBit(flags, bit) == (flags \div bit) % 2 = 1

----------------------------------------------------------------------------
\* The heap.

EmptyHeap ==
    [alive     |-> {},                          \* Nodes not yet freed
     created   |-> {},                          \* Nodes ever allocated
     other     |-> [n \in NodeIds |-> None],    \* the field Node.other
     finalized |-> {},                          \* Nodes with the "finalized" mark
     dels      |-> [n \in NodeIds |-> 0],       \* how often Node.__del__ ran
     printed   |-> {},                          \* Nodes whose "Deleting" line was printed
     escaped   |-> {},                          \* Nodes whose __del__ an exception left
     cleared   |-> {},                          \* Nodes whose weak references were cleared
     garbage   |-> <<>>]                        \* gc.garbage

\* Node(name): a new object whose field `other` defaults to None.
NewNode(h, n) ==
    [h EXCEPT !.alive = @ \cup {n}, !.created = @ \cup {n}, !.other[n] = None]

\* Variant: the loop variable `pair` is not counted as a holder.
LiveListsNoPair(hs, p, w) == Range(hs) \cup ({w} \ {None})

\* The lists main() can reach through its local variables.
LiveLists(hs, p, w) == Range(hs) \cup ({p} \ {None}) \cup ({w} \ {None})

\* What a failing print raises: an error of the output stream, or an
\* interrupt delivered while it writes.
FaultKinds == {"OSError", "KeyboardInterrupt"}

\* The classes that `except Exception` (line 41) catches.
ExceptionClasses == {"OSError"}

\* Variant: __del__ without its try/except, so a failing print leaves it.
NodeDelNoTry(h, n) ==
    IF n \in DOMAIN faulty
    THEN [h EXCEPT !.dels[n] = @ + 1, !.escaped = @ \cup {n}]
    ELSE [h EXCEPT !.dels[n] = @ + 1, !.printed = @ \cup {n}]

\* Node.__del__: print "Deleting <name>".  What the print raises is caught
\* inside the method when it is an Exception (except Exception: pass); a
\* BaseException outside Exception leaves __del__, and the runtime, which
\* called __del__, reports it as unraisable and carries on.
NodeDel(h, n) ==
    IF n \notin DOMAIN faulty
    THEN [h EXCEPT !.dels[n] = @ + 1, !.printed = @ \cup {n}]
    ELSE IF faulty[n] \in ExceptionClasses
    THEN [h EXCEPT !.dels[n] = @ + 1]
    ELSE [h EXCEPT !.dels[n] = @ + 1, !.escaped = @ \cup {n}]

\* Variant: the finalizer is called whether or not the object is marked.
CallFinalizerUnmarked(h, n) == NodeDel([h EXCEPT !.finalized = @ \cup {n}], n)

\* The runtime calls __del__ on an object unless it is already marked
\* finalized, and marks it.
CallFinalizer(h, n) ==
    IF n \in h.finalized THEN h
    ELSE NodeDel([h EXCEPT !.finalized = @ \cup {n}], n)

\* Strong references to n: from live lists, from other Nodes, from gc.garbage.
RefCount(h, ls, n) ==
    Cardinality({L \in ls : n \in Range(L)})
    + Cardinality({m \in h.alive : h.other[m] = n})
    + Cardinality({k \in DOMAIN h.garbage : h.garbage[k] = n})

\* Deallocation of one object: finalizer, weak references cleared, the
\* object's own reference dropped, storage released.
Dealloc(h, n) ==
    LET f == CallFinalizer(h, n)
    IN [f EXCEPT !.alive = @ \ {n}, !.cleared = @ \cup {n}, !.other[n] = None]

\* Reference counting: every object whose count is zero is deallocated, and
\* so on for the objects it was the last holder of.
RECURSIVE RcSweep(_, _)
RcSweep(h, ls) ==
    LET zero == {n \in h.alive : RefCount(h, ls, n) = 0}
    IN IF zero = {} THEN h
       ELSE RcSweep(Dealloc(h, CHOOSE n \in zero : \A m \in zero : Rank(n) <= Rank(m)), ls)

\* Objects reachable from the set S through Node.other.
RECURSIVE Reach(_, _)
Reach(h, S) ==
    LET next == (S \cup {h.other[n] : n \in S}) \ {None}
    IN IF next = S THEN S ELSE Reach(h, next)

\* The collector's unreachable set: references between tracked Nodes are
\* subtracted from the counts; what keeps a positive count is referenced
\* from outside and is a root, and everything a root reaches survives.
Unreachable(h, ls) ==
    LET internal(n) == Cardinality({m \in h.alive : h.other[m] = n})
        roots == {n \in h.alive : RefCount(h, ls, n) - internal(n) > 0}
    IN h.alive \ Reach(h, roots)

RECURSIVE FinalizeAll(_, _)
FinalizeAll(h, order) ==
    IF order = <<>> THEN h
    ELSE FinalizeAll(CallFinalizer(h, Head(order)), Tail(order))

\* Variant: the returned count is the number of objects actually freed.
GcCollectCountsFreed(h, ls, flags) ==
    LET unreachable == Unreachable(h, ls)
        h1 == [h EXCEPT !.cleared = @ \cup unreachable]
        h2 == FinalizeAll(h1, InOrder(unreachable))
        h3 == IF HasBit(flags, DEBUG_SAVEALL)
              THEN [h2 EXCEPT !.garbage = @ \o InOrder(unreachable)]
              ELSE RcSweep([h2 EXCEPT !.other = [m \in NodeIds |->
                               IF m \in unreachable THEN None ELSE @[m]]], ls)
    IN [heap |-> h3, n |-> Cardinality(h.alive \ h3.alive)]

\* One full collector pass under the debug flags `flags`: weak references to
\* the unreachable objects are cleared, their finalizers run, and then they
\* are appended to gc.garbage (DEBUG_SAVEALL) or their references are
\* cleared, which frees them.  n is the value gc.collect() returns.
GcCollect(h, ls, flags) ==
    LET unreachable == Unreachable(h, ls)
        h1 == [h EXCEPT !.cleared = @ \cup unreachable]
        h2 == FinalizeAll(h1, InOrder(unreachable))
        h3 == IF HasBit(flags, DEBUG_SAVEALL)
              THEN [h2 EXCEPT !.garbage = @ \o InOrder(unreachable)]
              ELSE RcSweep([h2 EXCEPT !.other = [m \in NodeIds |->
                               IF m \in unreachable THEN None ELSE @[m]]], ls)
    IN [heap |-> h3, n |-> Cardinality(unreachable)]

PassRecord(site, flags, ls, before, result) ==
    [site |-> site, flags |-> flags, lists |-> ls,
     before |-> before, after |-> result.heap, n |-> result.n]

\* aref() / bref(): the referent, or None once the weak reference is cleared.
Resolve(h, ref) == IF ref = None \/ ref \in h.cleared THEN None ELSE ref

----------------------------------------------------------------------------
\* Functions of the script.

\* make_cycle_pair(f"A{i}", f"B{i}")
make_cycle_pair(h, i) ==
    LET a == <<"A", i>>
        b == <<"B", i>>
        h1 == NewNode(NewNode(h, a), b)
    IN [heap |-> [h1 EXCEPT !.other[a] = b, !.other[b] = a], list |-> <<a, b>>]

\* break_cycle(nodes)
RECURSIVE break_cycle(_, _)
break_cycle(h, nodes) ==
    IF nodes = <<>> THEN h
    ELSE break_cycle([h EXCEPT !.other[Head(nodes)] = None], Tail(nodes))

\* weakref_demo()
weakref_demo(h) ==
    LET h1 == NewNode(NewNode(h, WeakA), WeakB)
    IN [heap |-> [h1 EXCEPT !.other[WeakA] = WeakB, !.other[WeakB] = WeakA],
        a_ref |-> WeakA, b_ref |-> WeakB, list |-> <<WeakA, WeakB>>]

\* line 161
ComputeDebugFlags(a) ==
    IF a.no_debug THEN 0
    ELSE BitOr(DEBUG_LEAK, IF a.saveall THEN DEBUG_SAVEALL ELSE 0)

\* Variant: the restore is not in a finally clause.
DebugAfterBlockNoFinally(saved, current, raised) == IF raised THEN current ELSE saved

\* temporary_gc_debug: what the collector's flags are once the with-block has
\* been left, normally or by an exception (the finally clause).
DebugAfterBlock(saved, current, raised) == saved

----------------------------------------------------------------------------
ArgSpace ==
    [cycles : 0 .. MaxCycles, saveall : BOOLEAN, no_debug : BOOLEAN,
     break_cycles : BOOLEAN, weakref_demo : BOOLEAN, stats : BOOLEAN]

Init ==
    /\ pc = "start"
    /\ args \in ArgSpace
    /\ faulty \in UNION {[S -> FaultKinds] : S \in {T \in SUBSET NodeIds : Cardinality(T) <= MaxFaults}}
    /\ heap = EmptyHeap
    /\ holders = <<>>
    /\ pair = None
    /\ idx = 0
    /\ weak_objects = None
    /\ aref = None
    /\ bref = None
    /\ report = <<>>
    /\ debug_flags = 0
    /\ prev = 0
    /\ gc_debug = 0
    /\ collected = None
    /\ passes = <<>>
    /\ exc = "none"
    /\ exit_code = None

\* lines 116-151: --stats prints the collector's statistics and returns.
StatsMode ==
    /\ pc = "start"
    /\ args.stats
    /\ pc' = "return"
    /\ UNCHANGED <<args, faulty, heap, holders, pair, idx, weak_objects, aref, bref,
                   report, debug_flags, prev, gc_debug, collected, passes, exc, exit_code>>

\* lines 154-155: parser.error exits with status 2.
RejectCycles ==
    /\ pc = "start"
    /\ ~args.stats
    /\ args.cycles < 1
    /\ pc' = "shutdown"
    /\ exc' = "SystemExit"
    /\ exit_code' = 2
    /\ UNCHANGED <<args, faulty, heap, holders, pair, idx, weak_objects, aref, bref,
                   report, debug_flags, prev, gc_debug, collected, passes>>

\* lines 158-159
RejectConflict ==
    /\ pc = "start"
    /\ ~args.stats
    /\ ~(args.cycles < 1)
    /\ args.no_debug /\ args.saveall
    /\ pc' = "shutdown"
    /\ exc' = "SystemExit"
    /\ exit_code' = 2
    /\ UNCHANGED <<args, faulty, heap, holders, pair, idx, weak_objects, aref, bref,
                   report, debug_flags, prev, gc_debug, collected, passes>>

\* lines 161-164
Setup ==
    /\ pc = "start"
    /\ ~args.stats
    /\ ~(args.cycles < 1)
    /\ ~(args.no_debug /\ args.saveall)
    /\ debug_flags' = ComputeDebugFlags(args)
    /\ holders' = <<>>
    /\ pc' = "create"
    /\ UNCHANGED <<args, faulty, heap, pair, idx, weak_objects, aref, bref,
                   report, prev, gc_debug, collected, passes, exc, exit_code>>

\* lines 165-167: one iteration of the creation loop.
CreatePair ==
    /\ pc = "create"
    /\ Len(holders) < args.cycles
    /\ LET made == make_cycle_pair(heap, Len(holders))
           hs == Append(holders, made.list)
       IN /\ pair' = made.list
          /\ holders' = hs
          /\ heap' = RcSweep(made.heap, LiveLists(hs, made.list, weak_objects))
    /\ UNCHANGED <<pc, args, faulty, idx, weak_objects, aref, bref, report,
                   debug_flags, prev, gc_debug, collected, passes, exc, exit_code>>

\* line 169: end of the creation loop.
CreateDone ==
    /\ pc = "create"
    /\ Len(holders) = args.cycles
    /\ pc' = IF args.break_cycles THEN "break" ELSE "drop"
    /\ UNCHANGED <<args, faulty, heap, holders, pair, idx, weak_objects, aref, bref,
                   report, debug_flags, prev, gc_debug, collected, passes, exc, exit_code>>

\* lines 171-172: one iteration of the break loop.
BreakPair ==
    /\ pc = "break"
    /\ idx < Len(holders)
    /\ pair' = holders[idx + 1]
    /\ heap' = RcSweep(break_cycle(heap, holders[idx + 1]),
                       LiveLists(holders, holders[idx + 1], weak_objects))
    /\ idx' = idx + 1
    /\ UNCHANGED <<pc, args, faulty, holders, weak_objects, aref, bref, report,
                   debug_flags, prev, gc_debug, collected, passes, exc, exit_code>>

\* line 173
BreakDone ==
    /\ pc = "break"
    /\ idx = Len(holders)
    /\ pc' = "drop"
    /\ UNCHANGED <<args, faulty, heap, holders, pair, idx, weak_objects, aref, bref,
                   report, debug_flags, prev, gc_debug, collected, passes, exc, exit_code>>

\* line 177: holders = []
DropHolders ==
    /\ pc = "drop"
    /\ holders' = <<>>
    /\ heap' = RcSweep(heap, LiveLists(<<>>, pair, weak_objects))
    /\ pc' = IF args.weakref_demo THEN "weak_create" ELSE "enter"
    /\ UNCHANGED <<args, faulty, pair, idx, weak_objects, aref, bref, report,
                   debug_flags, prev, gc_debug, collected, passes, exc, exit_code>>

\* line 182
WeakrefDemo ==
    /\ pc = "weak_create"
    /\ LET d == weakref_demo(heap)
       IN /\ aref' = d.a_ref
          /\ bref' = d.b_ref
          /\ weak_objects' = d.list
          /\ heap' = RcSweep(d.heap, LiveLists(holders, pair, d.list))
    /\ pc' = "weak_print"
    /\ UNCHANGED <<args, faulty, holders, pair, idx, report,
                   debug_flags, prev, gc_debug, collected, passes, exc, exit_code>>

\* line 183
WeakPrint ==
    /\ pc = "weak_print"
    /\ report' = Append(report, <<Resolve(heap, aref) # None, Resolve(heap, bref) # None>>)
    /\ pc' = "weak_del"
    /\ UNCHANGED <<args, faulty, heap, holders, pair, idx, weak_objects, aref, bref,
                   debug_flags, prev, gc_debug, collected, passes, exc, exit_code>>

\* Variant: the strong references are not deleted.
DelWeakObjectsSkipped ==
    /\ pc = "weak_del"
    /\ pc' = "weak_collect"
    /\ UNCHANGED <<args, faulty, heap, holders, pair, idx, weak_objects, aref, bref,
                   report, debug_flags, prev, gc_debug, collected, passes, exc, exit_code>>

\* line 188: del weak_objects
DelWeakObjects ==
    /\ pc = "weak_del"
    /\ weak_objects' = None
    /\ heap' = RcSweep(heap, LiveLists(holders, pair, None))
    /\ pc' = "weak_collect"
    /\ UNCHANGED <<args, faulty, holders, pair, idx, aref, bref, report,
                   debug_flags, prev, gc_debug, collected, passes, exc, exit_code>>

\* line 189: gc.collect(), result discarded
WeakCollect ==
    /\ pc = "weak_collect"
    /\ LET ls == LiveLists(holders, pair, weak_objects)
           r == GcCollect(heap, ls, gc_debug)
       IN /\ heap' = r.heap
          /\ passes' = Append(passes, PassRecord("demo", gc_debug, ls, heap, r))
    /\ pc' = "weak_report"
    /\ UNCHANGED <<args, faulty, holders, pair, idx, weak_objects, aref, bref, report,
                   debug_flags, prev, gc_debug, collected, exc, exit_code>>

\* line 190
WeakReport ==
    /\ pc = "weak_report"
    /\ report' = Append(report, <<Resolve(heap, aref) # None, Resolve(heap, bref) # None>>)
    /\ pc' = "enter"
    /\ UNCHANGED <<args, faulty, heap, holders, pair, idx, weak_objects, aref, bref,
                   debug_flags, prev, gc_debug, collected, passes, exc, exit_code>>

\* lines 193, 77-78: entering the with-block.
EnterDebug ==
    /\ pc = "enter"
    /\ prev' = gc_debug
    /\ gc_debug' = debug_flags
    /\ pc' = "banner"
    /\ UNCHANGED <<args, faulty, heap, holders, pair, idx, weak_objects, aref, bref,
                   report, debug_flags, collected, passes, exc, exit_code>>

\* lines 195-199: the banner prints succeed.
Banner ==
    /\ pc = "banner"
    /\ pc' = "collect"
    /\ UNCHANGED <<args, faulty, heap, holders, pair, idx, weak_objects, aref, bref,
                   report, debug_flags, prev, gc_debug, collected, passes, exc, exit_code>>

\* line 199 raising (standard output gone): the exception leaves the
\* with-block through the finally clause of temporary_gc_debug (line 82).
BannerRaises ==
    /\ pc = "banner"
    /\ exc' = "OSError"
    /\ gc_debug' = DebugAfterBlock(prev, gc_debug, TRUE)
    /\ pc' = "return"
    /\ UNCHANGED <<args, faulty, heap, holders, pair, idx, weak_objects, aref, bref,
                   report, debug_flags, prev, collected, passes, exit_code>>

\* lines 200-202: collected = gc.collect(), and the count is printed.
MainCollect ==
    /\ pc = "collect"
    /\ LET ls == LiveLists(holders, pair, weak_objects)
           r == GcCollect(heap, ls, gc_debug)
       IN /\ heap' = r.heap
          /\ collected' = r.n
          /\ passes' = Append(passes, PassRecord("main", gc_debug, ls, heap, r))
    /\ pc' = "show"
    /\ UNCHANGED <<args, faulty, holders, pair, idx, weak_objects, aref, bref, report,
                   debug_flags, prev, gc_debug, exc, exit_code>>

\* lines 200-205: gc.collect() runs, the print of line 202 raises an
\* Exception inside the try; line 203 catches it, line 204 reports it and
\* line 205 sets collected = 0.  The run goes on.
MainCollectPrintRaises ==
    /\ pc = "collect"
    /\ LET ls == LiveLists(holders, pair, weak_objects)
           r == GcCollect(heap, ls, gc_debug)
       IN /\ heap' = r.heap
          /\ passes' = Append(passes, PassRecord("main", gc_debug, ls, heap, r))
    /\ collected' = 0
    /\ pc' = "show"
    /\ UNCHANGED <<args, faulty, holders, pair, idx, weak_objects, aref, bref, report,
                   debug_flags, prev, gc_debug, exc, exit_code>>

\* lines 200-204: gc.collect() runs, the print of line 202 raises and so
\* does the print of line 204 in the handler: line 205 is not reached and
\* the exception leaves the with-block through the finally clause (line 82).
MainCollectHandlerRaises ==
    /\ pc = "collect"
    /\ LET ls == LiveLists(holders, pair, weak_objects)
           r == GcCollect(heap, ls, gc_debug)
       IN /\ heap' = r.heap
          /\ collected' = r.n
          /\ passes' = Append(passes, PassRecord("main", gc_debug, ls, heap, r))
    /\ exc' = "OSError"
    /\ gc_debug' = DebugAfterBlock(prev, gc_debug, TRUE)
    /\ pc' = "return"
    /\ UNCHANGED <<args, faulty, holders, pair, idx, weak_objects, aref, bref, report,
                   debug_flags, prev, exit_code>>

\* lines 207-237: gc.garbage and the generation statistics are printed.
ShowResults ==
    /\ pc = "show"
    /\ pc' = "leave"
    /\ UNCHANGED <<args, faulty, heap, holders, pair, idx, weak_objects, aref, bref,
                   report, debug_flags, prev, gc_debug, collected, passes, exc, exit_code>>

\* line 82: normal exit from the with-block.
LeaveDebug ==
    /\ pc = "leave"
    /\ gc_debug' = DebugAfterBlock(prev, gc_debug, FALSE)
    /\ pc' = "return"
    /\ UNCHANGED <<args, faulty, heap, holders, pair, idx, weak_objects, aref, bref,
                   report, debug_flags, prev, collected, passes, exc, exit_code>>

\* main() returns normally: its locals are released.
MainReturn ==
    /\ pc = "return"
    /\ exc = "none"
    /\ holders' = <<>>
    /\ pair' = None
    /\ weak_objects' = None
    /\ aref' = None
    /\ bref' = None
    /\ heap' = RcSweep(heap, {})
    /\ exit_code' = 0
    /\ pc' = "shutdown"
    /\ UNCHANGED <<args, faulty, idx, report, debug_flags, prev, gc_debug,
                   collected, passes, exc>>

\* main() is unwound by the uncaught exception: the interpreter prints the
\* traceback and keeps it (sys.last_traceback), and the traceback keeps
\* main's frame, so main's locals stay bound; the exit status is 1.
MainUnwind ==
    /\ pc = "return"
    /\ exc # "none"
    /\ exit_code' = 1
    /\ pc' = "shutdown"
    /\ UNCHANGED <<args, faulty, heap, holders, pair, idx, weak_objects, aref, bref,
                   report, debug_flags, prev, gc_debug, collected, passes, exc>>

\* Interpreter shutdown after line 241: the first collector pass of the
\* finalization, run while a kept traceback still holds main's locals.
Shutdown ==
    /\ pc = "shutdown"
    /\ LET ls == LiveLists(holders, pair, weak_objects)
           r == GcCollect(heap, ls, gc_debug)
       IN /\ heap' = r.heap
          /\ passes' = Append(passes, PassRecord("exit", gc_debug, ls, heap, r))
    /\ pc' = "finalize_modules"
    /\ UNCHANGED <<args, faulty, holders, pair, idx, weak_objects, aref, bref, report,
                   debug_flags, prev, gc_debug, collected, exc, exit_code>>

\* The modules are torn down: a kept traceback is dropped, and with it
\* main's frame and locals.
FinalizeModules ==
    /\ pc = "finalize_modules"
    /\ holders' = <<>>
    /\ pair' = None
    /\ weak_objects' = None
    /\ aref' = None
    /\ bref' = None
    /\ heap' = RcSweep(heap, {})
    /\ pc' = "last_pass"
    /\ UNCHANGED <<args, faulty, idx, report, debug_flags, prev, gc_debug,
                   collected, passes, exc, exit_code>>

\* The collector pass that follows the teardown of the modules.
LastPass ==
    /\ pc = "last_pass"
    /\ LET r == GcCollect(heap, {}, gc_debug)
       IN /\ heap' = r.heap
          /\ passes' = Append(passes, PassRecord("exit", gc_debug, {}, heap, r))
    /\ pc' = "done"
    /\ UNCHANGED <<args, faulty, holders, pair, idx, weak_objects, aref, bref, report,
                   debug_flags, prev, gc_debug, collected, exc, exit_code>>

Next ==
    \/ StatsMode
    \/ RejectCycles
    \/ RejectConflict
    \/ Setup
    \/ CreatePair
    \/ CreateDone
    \/ BreakPair
    \/ BreakDone
    \/ DropHolders
    \/ WeakrefDemo
    \/ WeakPrint
    \/ DelWeakObjects
    \/ WeakCollect
    \/ WeakReport
    \/ EnterDebug
    \/ Banner
    \/ BannerRaises
    \/ MainCollect
    \/ MainCollectPrintRaises
    \/ MainCollectHandlerRaises
    \/ ShowResults
    \/ LeaveDebug
    \/ MainReturn
    \/ MainUnwind
    \/ Shutdown
    \/ FinalizeModules
    \/ LastPass

Spec == Init /\ [][Next]_vars

----------------------------------------------------------------------------
\* Vocabulary of the properties.

PairA(i) == <<"A", i>>
PairB(i) == <<"B", i>>

\* Positions inside the with-block of line 193.
InBlock == {"banner", "collect", "show", "leave"}

\* Positions after line 177 (holders = []) and before main() has returned.
AfterDrop == {"weak_create", "weak_print", "weak_del", "weak_collect",
              "weak_report", "enter", "banner", "collect", "show", "leave"}

\* Nodes held directly by a list of the set ls or by gc.garbage.
Held(h, ls) == UNION {Range(L) : L \in ls} \cup Range(h.garbage)

\* Nodes that are allocated and that no held Node reaches.
Unrooted(h, ls) == h.alive \ Reach(h, Held(h, ls))

\* The lists bound to main's variables in the current state.
Bindings == Range(holders) \cup ({pair, weak_objects} \ {None})

\* The passes started by a gc.collect() call of the script.
ScriptPasses == {k \in DOMAIN passes : passes[k].site \in {"demo", "main"}}

\* Pair i is an intact cycle that nothing holds when pass p starts.
LoosePair(p, i) ==
    /\ {PairA(i), PairB(i)} \subseteq p.before.alive
    /\ p.before.other[PairA(i)] = PairB(i)
    /\ p.before.other[PairB(i)] = PairA(i)
    /\ {PairA(i), PairB(i)} \cap Held(p.before, p.lists) = {}

\* Both Nodes of pair i are among the objects pass p counts.
CountsPair(p, i) ==
    /\ {PairA(i), PairB(i)} \subseteq Unrooted(p.before, p.lists)
    /\ p.n = Cardinality(Unrooted(p.before, p.lists))

\* Pass p reclaims several Nodes and the print of f fails in the finalizer
\* that p runs for f.
FaultInPass(p, f) ==
    /\ f \in DOMAIN faulty
    /\ f \in Unrooted(p.before, p.lists)
    /\ p.before.dels[f] = 0
    /\ Cardinality(p.before.alive \ p.after.alive) >= 2

Invalid(a) == (a.saveall /\ a.no_debug) \/ a.cycles < 1

----------------------------------------------------------------------------
\* C1 as stated: every gc.collect() pass that starts with an intact,
\* unheld pair frees both Nodes and counts 2 for the pair.
C1_Original ==
    \A k \in ScriptPasses : \A i \in 0 .. MaxCycles - 1 :
        LoosePair(passes[k], i) =>
            /\ {PairA(i), PairB(i)} \cap passes[k].after.alive = {}
            /\ CountsPair(passes[k], i)

\* C1 amended: every gc.collect() pass that starts with an intact, unheld
\* pair finalizes both Nodes and counts 2 for the pair; it frees both when
\* its debug flags lack DEBUG_SAVEALL and otherwise keeps both, alive, in
\* gc.garbage.
C1_PairFoundByOnePass ==
    \A k \in ScriptPasses : \A i \in 0 .. MaxCycles - 1 :
        LoosePair(passes[k], i) =>
            /\ CountsPair(passes[k], i)
            /\ \A n \in {PairA(i), PairB(i)} :
                /\ passes[k].after.dels[n] = 1
                /\ IF HasBit(passes[k].flags, DEBUG_SAVEALL)
                   THEN n \in passes[k].after.alive /\ n \in Range(passes[k].after.garbage)
                   ELSE n \notin passes[k].after.alive /\ n \notin Range(passes[k].after.garbage)

C1_Witness ==
    \E k \in ScriptPasses : \E i \in 0 .. MaxCycles - 1 :
        /\ passes[k].site = "main"
        /\ LoosePair(passes[k], i)
        /\ passes[k].n >= 2
        /\ PairA(i) \notin heap.alive

\* C2 as stated: with --break-cycles, once holders = [] has run every Node
\* of the creation loop is already freed, before and whatever pass follows.
C2_Claim ==
    (args.break_cycles /\ pc \in AfterDrop) =>
        /\ heap.alive \cap LoopNodes = {}
        /\ \A k \in ScriptPasses : Unrooted(passes[k].before, passes[k].lists) \cap LoopNodes = {}

\* C3: no Node that a binding of main or gc.garbage reaches through strong
\* references is freed, and while weak_objects is bound both weak references
\* resolve to their live Node.
C3_ReachableIsAlive ==
    /\ Reach(heap, Held(heap, Bindings)) \subseteq heap.alive
    /\ weak_objects # None =>
          /\ Resolve(heap, aref) = WeakA /\ WeakA \in heap.alive
          /\ Resolve(heap, bref) = WeakB /\ WeakB \in heap.alive
    /\ Len(report) >= 1 => report[1] = <<TRUE, TRUE>>

C3_Witness ==
    /\ pc = "show"
    /\ args.weakref_demo
    /\ Len(passes) = 2
    /\ pair # None /\ Range(pair) \subseteq heap.alive
    /\ PairA(0) \in heap.created \ heap.alive
    /\ report[1] = <<TRUE, TRUE>>

\* C4: from the gc.collect() of the weakref demo until main returns, main
\* still holds both weak references and both resolve to None; a weak
\* reference that resolves to None never resolves to a Node again.
C4_DeadStaysDead ==
    /\ []((pc \in AfterDrop \cup {"return"} /\ \E k \in ScriptPasses : passes[k].site = "demo") =>
            /\ aref = WeakA /\ bref = WeakB
            /\ Resolve(heap, aref) = None /\ Resolve(heap, bref) = None
            /\ Len(report) >= 2 => report[2] = <<FALSE, FALSE>>)
    /\ [][/\ (aref # None /\ Resolve(heap, aref) = None) => Resolve(heap', aref') = None
          /\ (bref # None /\ Resolve(heap, bref) = None) => Resolve(heap', bref') = None]_vars

C4_Witness ==
    /\ pc = "return"
    /\ Len(passes) = 2
    /\ aref = WeakA /\ Resolve(heap, aref) = None
    /\ bref = WeakB /\ Resolve(heap, bref) = None
    /\ report = << <<TRUE, TRUE>>, <<FALSE, FALSE>> >>

\* C5 as stated: an invalid flag combination always ends in exit status 2
\* with no Node created, no debug flag changed and no gc.collect() pass run;
\* every other invocation whose main raises nothing exits with status 0.
C5_Claim ==
    pc = "done" =>
        /\ Invalid(args) =>
              /\ exit_code = 2
              /\ heap.created = {}
              /\ gc_debug = 0 /\ debug_flags = 0
              /\ ScriptPasses = {}
        /\ (~Invalid(args) /\ exc = "none") => exit_code = 0

\* C6: Node.__del__ runs at most once for each Node.
C6_FinalizedAtMostOnce == \A n \in NodeIds : heap.dels[n] <= 1

C6_Witness ==
    /\ pc = "done"
    /\ \E n \in Range(heap.garbage) : heap.dels[n] = 1 /\ n \in heap.alive
    /\ \E k \in DOMAIN passes : \E m \in NodeIds :
          /\ passes[k].site = "exit"
          /\ m \in passes[k].before.alive
          /\ passes[k].before.dels[m] = 0
          /\ m \notin heap.alive /\ heap.dels[m] = 1

\* C7 as stated: when the print of one finalizer fails in a gc.collect()
\* pass that reclaims several Nodes, the failure does not leave __del__,
\* every other Node of the pass is finalized and reclaimed, and the count
\* includes the failing Node.
C7_Original ==
    \A k \in ScriptPasses : \A f \in NodeIds :
        FaultInPass(passes[k], f) =>
            /\ f \notin passes[k].after.escaped
            /\ \A m \in Unrooted(passes[k].before, passes[k].lists) \ {f} :
                  passes[k].after.dels[m] = 1 /\ m \notin passes[k].after.alive
            /\ f \in Unrooted(passes[k].before, passes[k].lists)
            /\ passes[k].n = Cardinality(Unrooted(passes[k].before, passes[k].lists))

\* C7 amended: when the print of one finalizer fails in a gc.collect() pass
\* that reclaims several Nodes, the failure leaves __del__ exactly when it is
\* not an Exception (a KeyboardInterrupt does, an OSError does not); either
\* way the failing Node's message is not printed, every Node of the pass,
\* the failing one included, is finalized once and reclaimed, and the count
\* includes the failing Node.
C7_FaultIsolated ==
    \A k \in ScriptPasses : \A f \in NodeIds :
        FaultInPass(passes[k], f) =>
            /\ (f \in passes[k].after.escaped) = (faulty[f] \notin ExceptionClasses)
            /\ f \notin passes[k].after.printed
            /\ \A m \in Unrooted(passes[k].before, passes[k].lists) :
                  /\ passes[k].after.dels[m] = 1
                  /\ m \in passes[k].after.finalized
                  /\ (m \in passes[k].after.printed) = (m \notin DOMAIN faulty)
                  /\ m \notin passes[k].after.alive
                  /\ m \notin Range(passes[k].after.garbage)
            /\ f \in Unrooted(passes[k].before, passes[k].lists)
            /\ passes[k].n = Cardinality(Unrooted(passes[k].before, passes[k].lists))

C7_Witness ==
    \E k \in ScriptPasses : \E f \in NodeIds :
        /\ FaultInPass(passes[k], f)
        /\ faulty[f] \in ExceptionClasses
        /\ heap.dels[f] = 1 /\ f \notin heap.printed /\ f \notin heap.escaped
        /\ Unrooted(passes[k].before, passes[k].lists) \cap heap.alive = {}
        /\ passes[k].n >= 2

\* C8 as stated: the flags installed for the main pass contain the save-all
\* bit exactly when --saveall is given, and without --saveall no Node is in
\* gc.garbage after the main pass.
C8_Claim ==
    /\ pc \in InBlock => (HasBit(gc_debug, DEBUG_SAVEALL) <=> args.saveall)
    /\ (~args.saveall /\ \E k \in ScriptPasses : passes[k].site = "main") =>
          Range(heap.garbage) = {}

\* C9 as stated: once holders = [] has run, no Node of the creation loop is
\* reachable from a binding of main, and all 2N are unrooted when the main
\* pass starts.
C9_Claim ==
    /\ pc \in AfterDrop =>
          Reach(heap, UNION {Range(L) : L \in Bindings}) \cap LoopNodes = {}
    /\ \A k \in ScriptPasses : passes[k].site = "main" =>
          \A n \in LoopNodes \cap passes[k].before.created :
              n \notin Reach(passes[k].before, UNION {Range(L) : L \in passes[k].lists})

\* C10: entering the with-block saves the current debug flags and installs
\* debug_flags; inside the block the flags stay installed; every step that
\* leaves the block, normally or with an exception, puts the saved value
\* back; no other step of the run changes the debug flags.
C10_DebugFlagsFrame ==
    [][/\ pc = "enter" => (prev' = gc_debug /\ gc_debug' = debug_flags /\ pc' \in InBlock)
       /\ (pc \in InBlock /\ pc' \in InBlock) =>
             (gc_debug = debug_flags /\ gc_debug' = gc_debug /\ prev' = prev)
       /\ (pc \in InBlock /\ pc' \notin InBlock) => gc_debug' = prev
       /\ pc \notin InBlock \cup {"enter"} => gc_debug' = gc_debug]_vars

C10_Witness ==
    /\ pc = "return"
    /\ exc = "OSError"
    /\ debug_flags # 0
    /\ gc_debug = 0

====
